---- MODULE Spec2Model ----
(***************************************************************************)
(* Model of the synthetic-data drivers of the NNDSS HL7 generator:         *)
(*   src/generator/gen_synthetic_data_hl7.py           (the CLI driver)    *)
(*   src/_converted_notebooks/SyntheticGenerator_HL7.py (the notebook)     *)
(* One run of a driver is a sequential program; pc is its position.  The   *)
(* library stages (loader, spectral synthesizer, sparse-segment repairer,  *)
(* copula sampler, validity corrector, date deriver, writer) are calls     *)
(* whose results are chosen nondeterministically; every call is appended   *)
(* to the history variable calls with the arguments the driver passed.     *)
(***************************************************************************)
EXTENDS Integers, Sequences, FiniteSets, TLC

\* ---------------------------------------------------------------- bounds
MaxLen == 2          \* longest original signal (days)
MaxCases == 1        \* largest total of the daily counts of a timeseries
MaxSeed == 1         \* largest seed value offered as --rng_seed / RNG_SEED
MaxItems == 3        \* most entries of a jurisdiction directory (tester)
MaxSamples == 1      \* largest sample-count override offered

\* ---------------------------------------------------- program constants
MaxAttempts == 7     \* while attempts < 7
threshold_inc == 1   \* threshold_inc = 0.1, in tenths

\* ------------------------------------------------------- optional values
\* Python's None is the empty tuple and a present value v is <<v>>.
None == << >>
Some(v) == << v >>
IsNone(o) == o = None
Val(o) == o[1]

Drivers == {"cli", "notebook"}
SeedArgs == {None} \cup {Some(s) : s \in 0..MaxSeed}
SampleArgs == {None} \cup {Some(k) : k \in (-1)..MaxSamples}
Counts == 0..MaxCases

\* a Python str is Some(<its characters>), so that '' is not None
Str(chars) == Some(chars)
_EXT_CSV == Str(<< ".", "c", "s", "v" >>)
_EXT_JSON == Str(<< ".", "j", "s", "o", "n" >>)

\* the output file names offered as --outfile / OUTPUT_FILE_NAME
Outfiles ==
    { Str(<< "o", ".", "c", "s", "v" >>),
      Str(<< "o", ".", "j", "s", "o", "n" >>),
      Str(<< "o", ".", "C", "S", "V" >>),
      Str(<< "o", ".", "t", "x", "t" >>),
      Str(<< "o" >>),
      Str(<< "o", "c", "s", "v" >>) }
OutfileArgs == {None} \cup Outfiles

VARIABLES
    pc,                     \* position of the driver
    driver,                 \* which driver runs
    arg_num_samples,        \* --num_samples as parsed / NUM_SAMPLES as set
    arg_rng_seed,           \* --rng_seed as parsed / RNG_SEED as set
    num_samples,            \* the driver's num_samples variable
    rng_seed,               \* the driver's rng_seed variable
    rng,                    \* the driver's rng variable: None or Some(generator)
    rng_created,            \* number of generators created so far
    signal,                 \* original daily counts
    synthetic_fourier,      \* output of the spectral synthesizer
    synthetic_timeseries,   \* result of the latest repair attempt
    attempts,               \* the loop counter of the escalation loop
    sample_count_synthetic, \* tuple count
    calls,                  \* history: the stage calls made so far
    exit_status,            \* None while running, Some(status) at the end
    message,                \* the last diagnostic printed before an exit
    arg_outfile,            \* --outfile as parsed / OUTPUT_FILE_NAME as set
    output_file_path,       \* None, or Some([dir, name]) once it is built
    hl7_isdir,              \* None, or Some(os.path.isdir(hl7_dir))
    infile_list,            \* None, or Some(number of input files found)
    header_list,            \* None, or Some(header of the preprocessed files)
    synthetic_data,         \* "unset", "None", "sampled" or "corrected"
    date_tuple_list,        \* None, or Some(what the date deriver returned)
    t_pc,                   \* tester: position of the tester script
    t_items,                \* tester: os.listdir(data_dir), TRUE for a regular file
    t_idx,                  \* tester: position of the for loop in t_items
    t_launched,             \* tester history: the items a run was launched for
    t_running,              \* tester history: the launched runs not yet finished
    t_codes,                \* tester history: exit status of the finished runs
    t_exit                  \* tester: None, or Some(exit status of the tester)

vars == << pc, driver, arg_num_samples, arg_rng_seed, num_samples, rng_seed,
           rng, rng_created, signal, synthetic_fourier, synthetic_timeseries,
           attempts, sample_count_synthetic, calls, exit_status, message,
           arg_outfile, output_file_path, hl7_isdir, infile_list, header_list,
           synthetic_data, date_tuple_list,
           t_pc, t_items, t_idx, t_launched, t_running, t_codes, t_exit >>

\* the variables of the tester script
tester_vars == << t_pc, t_items, t_idx, t_launched, t_running, t_codes, t_exit >>

\* the variables of a generator run
generator_vars ==
    << pc, driver, arg_num_samples, arg_rng_seed, num_samples, rng_seed,
       rng, rng_created, signal, synthetic_fourier, synthetic_timeseries,
       attempts, sample_count_synthetic, calls, exit_status, message,
       arg_outfile, output_file_path, hl7_isdir, infile_list, header_list,
       synthetic_data, date_tuple_list >>

\* --------------------------------------------------------------- helpers
RECURSIVE np_sum_from(_, _)
np_sum_from(s, i) == IF i > Len(s) THEN 0 ELSE s[i] + np_sum_from(s, i + 1)

\* np.sum(series)
np_sum(s) == np_sum_from(s, 1)

\* the timeseries of L days: non-negative daily counts
Series(L) == {s \in [1..L -> Counts] : np_sum(s) <= MaxCases}

\* numpy can subtract two one-dimensional arrays when their lengths are
\* equal or one of them has length 1 (which is then repeated)
broadcastable(a, b) == Len(a) = Len(b) \/ Len(a) = 1 \/ Len(b) = 1

\* synthetic_timeseries - signal, elementwise
diff_signal(a, b) ==
    LET n == IF Len(a) >= Len(b) THEN Len(a) ELSE Len(b)
    IN [i \in 1..n |-> (IF Len(a) = 1 THEN a[1] ELSE a[i])
                       - (IF Len(b) = 1 THEN b[1] ELSE b[i])]

\* variant: the difference signal is judged by its sum
np_any_mut(d) == np_sum(d) # 0

\* np.any(diff): some element is nonzero
np_any(d) == \E i \in 1..Len(d) : d[i] # 0

\* variant: while attempts <= 7
while_cond_mut(a) == a <= MaxAttempts

\* while attempts < 7
while_cond(a) == a < MaxAttempts

\* variant: the first attempt already uses one increment
delta_of_mut(a) == (a + 1) * threshold_inc

\* delta = attempts * threshold_inc   (in tenths)
delta_of(a) == a * threshold_inc

\* a stage call as the driver makes it: the generator passed (0 = none),
\* the tuple count, the delta and the timeseries arguments (None = absent),
\* and the timeseries the call returned (None = something else)
Call(stage, g, n, d, ts, res) ==
    [stage |-> stage, rng |-> g, n |-> n, delta |-> d, ts |-> ts,
     result |-> res, data |-> "unset", dates |-> None]

\* the same call, also passing a categorical tuple set / a date tuple list
WithData(c, data) == [c EXCEPT !.data = data]
WithDates(c, dates) == [c EXCEPT !.dates = dates]

\* the generator object the driver's variable rng refers to (0 = none)
RngId == IF IsNone(rng) THEN 0 ELSE Val(rng).id

Called(stage) == \E i \in 1..Len(calls) : calls[i].stage = stage
CallsOf(stage) == {i \in 1..Len(calls) : calls[i].stage = stage}

\* model.init_rng(seed): a new generator, seeded with seed, or from the
\* system time when seed is None
init_rng(seed, id) == [id |-> id, seed |-> seed]

\* the process ends with the given status after printing msg
Exit(status, msg) ==
    /\ pc' = "exit"
    /\ exit_status' = Some(status)
    /\ message' = msg

\* model.error_exit(rng, stage): reports the failed stage and ends the run
\* with a failure status
error_exit(stage) == Exit(1, stage)

Init ==
    /\ pc = "parse_args"
    /\ driver \in Drivers
    /\ arg_num_samples \in SampleArgs
    /\ arg_rng_seed \in SeedArgs
    \* at most one of the optional inputs is given in a run
    /\ IsNone(arg_num_samples) \/ IsNone(arg_rng_seed)
    /\ num_samples = None
    /\ rng_seed = None
    /\ rng = None
    /\ rng_created = 0
    /\ signal = << >>
    /\ synthetic_fourier = << >>
    /\ synthetic_timeseries = << >>
    /\ attempts = 0
    /\ sample_count_synthetic = 0
    /\ calls = << >>
    /\ exit_status = None
    /\ message = ""
    /\ arg_outfile = None
    /\ output_file_path = None
    /\ hl7_isdir = None
    /\ infile_list = None
    /\ header_list = None
    /\ synthetic_data = "unset"
    /\ date_tuple_list = None
    /\ t_pc = "idle"
    /\ t_items = << >>
    /\ t_idx = 0
    /\ t_launched = << >>
    /\ t_running = {}
    /\ t_codes = << >>
    /\ t_exit = None

\* the runs that may name an output file, with no seed and no sample count
InitOutfile ==
    /\ pc = "parse_args"
    /\ driver \in Drivers
    /\ arg_num_samples = None
    /\ arg_rng_seed = None
    /\ num_samples = None
    /\ rng_seed = None
    /\ rng = None
    /\ rng_created = 0
    /\ signal = << >>
    /\ synthetic_fourier = << >>
    /\ synthetic_timeseries = << >>
    /\ attempts = 0
    /\ sample_count_synthetic = 0
    /\ calls = << >>
    /\ exit_status = None
    /\ message = ""
    /\ arg_outfile \in OutfileArgs
    /\ output_file_path = None
    /\ hl7_isdir = None
    /\ infile_list = None
    /\ header_list = None
    /\ synthetic_data = "unset"
    /\ date_tuple_list = None
    /\ t_pc = "idle"
    /\ t_items = << >>
    /\ t_idx = 0
    /\ t_launched = << >>
    /\ t_running = {}
    /\ t_codes = << >>
    /\ t_exit = None

\* ------------------------------------------------------------- the run
\* Python truthiness of an optional integer: None and 0 are false
Truthy(o) == ~IsNone(o) /\ Val(o) # 0

\* CLI: rng_seed = None; if args.rng_seed: rng_seed = int(args.rng_seed)
cli_rng_seed(a) == IF Truthy(a) THEN a ELSE None

\* CLI: num_samples = None, and no later assignment from args.num_samples
cli_num_samples(a) == None

\* status of a failed run: sys.exit(-1) in the CLI, SystemExit(<text>) in
\* the notebook
FailStatus == IF driver = "cli" THEN -1 ELSE 1

\* str.endswith(suffix)
endswith(str, suffix) ==
    LET s == Val(str)
        t == Val(suffix)
    IN /\ Len(s) >= Len(t)
       /\ SubSeq(s, Len(s) - Len(t) + 1, Len(s)) = t

\* str.rfind(ch) counted from 1; 0 when ch does not occur
rfind(chars, ch) ==
    LET hits == {i \in 1..Len(chars) : chars[i] = ch}
    IN IF hits = {} THEN 0 ELSE CHOOSE i \in hits : \A k \in hits : k <= i

\* os.path.splitext(path): the extension starts at the last dot of the last
\* path component, unless only dots precede it there; it is '' otherwise
splitext(path) ==
    LET p == Val(path)
        sep == rfind(p, "/")
        dot == rfind(p, ".")
    IN IF dot > sep /\ \E k \in (sep + 1)..(dot - 1) : p[k] # "."
       THEN << Str(SubSeq(p, 1, dot - 1)), Str(SubSeq(p, dot, Len(p))) >>
       ELSE << path, Str(<< >>) >>

\* os.path.split(path): (head, tail) around the last separator
os_path_split(path) ==
    LET p == Val(path)
        sep == rfind(p, "/")
    IN << Str(SubSeq(p, 1, sep - 1)), Str(SubSeq(p, sep + 1, Len(p))) >>

lower_char(c) ==
    CASE c = "C" -> "c" [] c = "S" -> "s" [] c = "V" -> "v"
      [] c = "J" -> "j" [] c = "O" -> "o" [] c = "N" -> "n"
      [] c = "T" -> "t" [] c = "X" -> "x" [] OTHER -> c

\* str.lower()
lower(str) == Str([i \in 1..Len(Val(str)) |-> lower_char(Val(str)[i])])

\* str + str
concat(a, b) == Str(Val(a) \o Val(b))

\* Python truthiness of an optional str: None and '' are false
TruthyStr(o) == ~IsNone(o) /\ Len(Val(o)) > 0

\* CLI: outfile = None; if args.outfile: outfile = args.outfile
cli_outfile(a) == IF TruthyStr(a) THEN a ELSE None

\* CLI: not outfile.endswith('csv') and not outfile.endswith('json')
cli_suffix_rejected(outfile) ==
    /\ ~endswith(outfile, Str(<< "c", "s", "v" >>))
    /\ ~endswith(outfile, Str(<< "j", "s", "o", "n" >>))

\* the outfile variable / OUTPUT_FILE_NAME as the driver holds it
Outfile == IF driver = "cli" THEN cli_outfile(arg_outfile) ELSE arg_outfile

\* argument handling (CLI) / the user-input cells (notebook)
ParseArgs ==
    /\ pc = "parse_args"
    /\ rng_seed' = IF driver = "cli" THEN cli_rng_seed(arg_rng_seed)
                                      ELSE arg_rng_seed
    /\ num_samples' = IF driver = "cli" THEN cli_num_samples(arg_num_samples)
                                         ELSE arg_num_samples
    /\ IF driver = "cli" /\ ~IsNone(Outfile) /\ cli_suffix_rejected(Outfile)
       THEN Exit(-1, "Supported output file extensions are .csv and .json")
       ELSE /\ pc' = IF driver = "cli" THEN "check_hl7_dir" ELSE "build_input"
            /\ UNCHANGED << exit_status, message >>
    /\ UNCHANGED << arg_outfile, output_file_path, hl7_isdir, infile_list,
                    header_list, synthetic_data, date_tuple_list >>
    /\ UNCHANGED << driver, arg_num_samples, arg_rng_seed, rng, rng_created,
                    signal, synthetic_fourier, synthetic_timeseries, attempts,
                    sample_count_synthetic, calls >>
    /\ UNCHANGED tester_vars

\* data.remap_synthetic_results(synthetic_data, variable_names): the same
\* tuples with the HL7 values in place of consecutive integers
remap_synthetic_results(data) ==
    CASE data = "corrected" -> "remapped corrected"
      [] data = "sampled" -> "remapped sampled"
      [] OTHER -> data

\* variant: the missing directory is not reported
CheckHl7Dir_silent ==
    /\ pc = "check_hl7_dir"
    /\ \E isdir \in BOOLEAN :
          /\ hl7_isdir' = Some(isdir)
          /\ IF isdir
             THEN /\ pc' = "build_input"
                  /\ UNCHANGED << exit_status, message >>
             ELSE Exit(-1, "")
    /\ UNCHANGED << arg_outfile, output_file_path, infile_list,
                    header_list, synthetic_data, date_tuple_list >>
    /\ UNCHANGED << driver, arg_num_samples, arg_rng_seed, num_samples,
                    rng_seed, rng, rng_created, signal, synthetic_fourier,
                    synthetic_timeseries, attempts, sample_count_synthetic,
                    calls >>
    /\ UNCHANGED tester_vars

\* variant: the directory is looked at but the run goes on either way
CheckHl7Dir_mut ==
    /\ pc = "check_hl7_dir"
    /\ \E isdir \in BOOLEAN : hl7_isdir' = Some(isdir)
    /\ pc' = "build_input"
    /\ UNCHANGED << arg_outfile, output_file_path, infile_list,
                    header_list, synthetic_data, date_tuple_list >>
    /\ UNCHANGED << driver, arg_num_samples, arg_rng_seed, num_samples,
                    rng_seed, rng, rng_created, signal, synthetic_fourier,
                    synthetic_timeseries, attempts, sample_count_synthetic,
                    calls, exit_status, message >>
    /\ UNCHANGED tester_vars

\* CLI only: check that the HL7 directory exists
CheckHl7Dir ==
    /\ pc = "check_hl7_dir"
    /\ \E isdir \in BOOLEAN :
          /\ hl7_isdir' = Some(isdir)
          /\ IF isdir
             THEN /\ pc' = "build_input"
                  /\ UNCHANGED << exit_status, message >>
             ELSE Exit(-1, "The specified HL7 data directory does not exist")
    /\ UNCHANGED << arg_outfile, output_file_path, infile_list,
                    header_list, synthetic_data, date_tuple_list >>
    /\ UNCHANGED << driver, arg_num_samples, arg_rng_seed, num_samples,
                    rng_seed, rng, rng_created, signal, synthetic_fourier,
                    synthetic_timeseries, attempts, sample_count_synthetic,
                    calls >>
    /\ UNCHANGED tester_vars

\* variant: an empty file list is not noticed
no_input_files_mut(n) == n < 0

\* 0 == len(infile_list)
no_input_files(n) == 0 = n

\* the code list (int(condition_code) raises ValueError in the CLI when the
\* code is not a number), then model.build_input_filepaths; no input file
\* ends the run with status 0
BuildInputFilepaths ==
    /\ pc = "build_input"
    /\ \E code_is_int \in {TRUE} \cup (IF driver = "cli" THEN {FALSE} ELSE {}) :
          IF ~code_is_int
          THEN /\ Exit(1, "ValueError: invalid literal for int()")
               /\ UNCHANGED << calls, infile_list >>
          ELSE /\ calls' = Append(calls,
                     Call("build_input_filepaths", 0, None, None, None, None))
               /\ \E nfiles \in 0..1 :
                     /\ infile_list' = Some(nfiles)
                     /\ IF no_input_files(nfiles)
                        THEN Exit(0, "No data in jurisdiction for codes")
                        ELSE /\ pc' = "build_output"
                             /\ UNCHANGED << exit_status, message >>
    /\ UNCHANGED << arg_outfile, output_file_path, hl7_isdir,
                    header_list, synthetic_data, date_tuple_list >>
    /\ UNCHANGED << driver, arg_num_samples, arg_rng_seed, num_samples,
                    rng_seed, rng, rng_created, signal, synthetic_fourier,
                    synthetic_timeseries, attempts, sample_count_synthetic >>
    /\ UNCHANGED tester_vars

\* model.default_output_dir(): the directory synthetic_results_hl7
default_output_dir == Str(<< "r" >>)

\* model.default_output_file_name(jurisdiction, code_list, syphilis_total):
\* synthetic_<code_list>_<jurisdiction>.csv
default_output_file_name == Str(<< "d", ".", "c", "s", "v" >>)

\* the check of the extension of a given output file name: the name to use,
\* or None when the format is not supported
checked_outfile(outfile) ==
    LET ext == splitext(outfile)[2]
    IN IF IsNone(ext)
       THEN concat(outfile, _EXT_CSV)
       ELSE IF _EXT_CSV # lower(ext) /\ _EXT_JSON # lower(ext)
            THEN None
            ELSE outfile

\* output_dir and output_file_name of an accepted outfile
output_dir_and_name(outfile) ==
    IF IsNone(outfile)
    THEN << default_output_dir, default_output_file_name >>
    ELSE IF driver = "cli"
         THEN LET parts == os_path_split(outfile)
              IN << IF IsNone(parts[1]) THEN default_output_dir ELSE parts[1],
                    parts[2] >>
         ELSE << default_output_dir, outfile >>

\* the output file path: extension check, directory and name, the two
\* asserts (CLI), then model.build_output_filepath, which may return None
BuildOutputFilepath ==
    /\ pc = "build_output"
    /\ LET checked == IF IsNone(Outfile) THEN None ELSE checked_outfile(Outfile)
       IN IF ~IsNone(Outfile) /\ IsNone(checked)
          THEN /\ Exit(FailStatus, "Unsupported format for output file")
               /\ UNCHANGED << calls, output_file_path >>
          ELSE LET dn == output_dir_and_name(checked)
               IN IF driver = "cli" /\ (IsNone(dn[1]) \/ IsNone(dn[2]))
                  THEN \* AssertionError
                       /\ Exit(1, "")
                       /\ UNCHANGED << calls, output_file_path >>
                  ELSE /\ calls' = Append(calls,
                             Call("build_output_filepath", 0, None, None,
                                  None, None))
                       /\ \E path_ok \in BOOLEAN :
                             IF path_ok
                             THEN /\ output_file_path' =
                                        Some([dir |-> dn[1], name |-> dn[2]])
                                  /\ pc' = "init_rng"
                                  /\ UNCHANGED << exit_status, message >>
                             ELSE /\ UNCHANGED output_file_path
                                  /\ Exit(FailStatus,
                                          "FATAL ERROR: build_output_filepath")
    /\ UNCHANGED << arg_outfile, hl7_isdir, infile_list,
                    header_list, synthetic_data, date_tuple_list >>
    /\ UNCHANGED << driver, arg_num_samples, arg_rng_seed, num_samples,
                    rng_seed, rng, rng_created, signal, synthetic_fourier,
                    synthetic_timeseries, attempts, sample_count_synthetic >>
    /\ UNCHANGED tester_vars

\* rng = model.init_rng(rng_seed)
InitRng ==
    /\ pc = "init_rng"
    /\ rng' = Some(init_rng(rng_seed, rng_created + 1))
    /\ rng_created' = rng_created + 1
    /\ pc' = "check_samples"
    /\ UNCHANGED << arg_outfile, output_file_path, hl7_isdir, infile_list,
                    header_list, synthetic_data, date_tuple_list >>
    /\ UNCHANGED << driver, arg_num_samples, arg_rng_seed, num_samples,
                    rng_seed, signal, synthetic_fourier, synthetic_timeseries,
                    attempts, sample_count_synthetic, calls, exit_status,
                    message >>
    /\ UNCHANGED tester_vars

\* check the sample count, if any
CheckSampleCount ==
    /\ pc = "check_samples"
    /\ IF ~IsNone(num_samples) /\ Val(num_samples) <= 0
       THEN Exit(FailStatus, "num_samples is invalid")
       ELSE /\ pc' = "load"
            /\ UNCHANGED << exit_status, message >>
    /\ UNCHANGED << arg_outfile, output_file_path, hl7_isdir, infile_list,
                    header_list, synthetic_data, date_tuple_list >>
    /\ UNCHANGED << driver, arg_num_samples, arg_rng_seed, num_samples,
                    rng_seed, rng, rng_created, signal, synthetic_fourier,
                    synthetic_timeseries, attempts, sample_count_synthetic,
                    calls >>
    /\ UNCHANGED tester_vars

\* data.init_model_data(infile_list, variable_names_in, rng); a failed load
\* goes to model.error_exit(rng, 'init_model_data'), which ends the run
LoadInputFiles ==
    /\ pc = "load"
    /\ calls' = Append(calls, Call("init_model_data", RngId, None, None, None, None))
    /\ \E loaded \in BOOLEAN :
          IF loaded
          THEN /\ pc' = "check_fields"
               /\ UNCHANGED << exit_status, message >>
          ELSE error_exit("init_model_data")
    /\ UNCHANGED << arg_outfile, output_file_path, hl7_isdir, infile_list,
                    header_list, synthetic_data, date_tuple_list >>
    /\ UNCHANGED << driver, arg_num_samples, arg_rng_seed, num_samples,
                    rng_seed, rng, rng_created, signal, synthetic_fourier,
                    synthetic_timeseries, attempts, sample_count_synthetic >>
    /\ UNCHANGED tester_vars

\* HL7.OUTPUT_FIELDS, abbreviated to three of its fields
OUTPUT_FIELDS == << "age", "sex", "count" >>

\* the headers data.get_preprocessed_header() may return
Headers ==
    { OUTPUT_FIELDS,
      << "age", "sex" >>,
      << "sex", "age", "count" >>,
      << "age", "sex", "date" >>,
      << "age", "sex", "count", "date" >> }

\* variant: only the number of fields is compared
header_mismatch_mut(header) == Len(header) # Len(OUTPUT_FIELDS)

\* the two checks of the header: the lengths, then field by field
header_mismatch(header) ==
    \/ Len(header) # Len(OUTPUT_FIELDS)
    \/ \E i \in 1..Len(OUTPUT_FIELDS) : header[i] # OUTPUT_FIELDS[i]

\* the preprocessed header must match HL7.OUTPUT_FIELDS
CheckOutputFields ==
    /\ pc = "check_fields"
    /\ \E header \in Headers :
          /\ header_list' = Some(header)
          /\ IF header_mismatch(header)
             THEN Exit(IF driver = "cli" THEN -1 ELSE 0,
                       "*** Invalid output fields ***")
             ELSE /\ pc' = "signal"
                  /\ UNCHANGED << exit_status, message >>
    /\ UNCHANGED << arg_outfile, output_file_path, hl7_isdir, infile_list,
                    synthetic_data, date_tuple_list >>
    /\ UNCHANGED << driver, arg_num_samples, arg_rng_seed, num_samples,
                    rng_seed, rng, rng_created, signal, synthetic_fourier,
                    synthetic_timeseries, attempts, sample_count_synthetic,
                    calls >>
    /\ UNCHANGED tester_vars

\* dates, signal, maps = data.signal_from_anchor_date(file_data)
SignalFromAnchorDate ==
    /\ pc = "signal"
    /\ \E L \in 1..MaxLen : \E s \in Series(L) : signal' = s
    /\ calls' = Append(calls,
                  Call("signal_from_anchor_date", 0, None, None, None, None))
    /\ pc' = "fourier"
    /\ UNCHANGED << arg_outfile, output_file_path, hl7_isdir, infile_list,
                    header_list, synthetic_data, date_tuple_list >>
    /\ UNCHANGED << driver, arg_num_samples, arg_rng_seed, num_samples,
                    rng_seed, rng, rng_created, synthetic_fourier,
                    synthetic_timeseries, attempts, sample_count_synthetic,
                    exit_status, message >>
    /\ UNCHANGED tester_vars

\* timeseries.gen_synthetic_fourier(rng, timeseries=signal, pct_to_modify=0.0):
\* a series of non-negative integers as long as its input
gen_synthetic_fourier(ts) == Series(Len(ts))

\* the spectral synthesizer, then assert len(synthetic_fourier) == len(signal),
\* then attempts = 0
GenSyntheticFourier ==
    /\ pc = "fourier"
    /\ \E f \in gen_synthetic_fourier(signal) :
          /\ synthetic_fourier' = f
          /\ calls' = Append(calls,
                        Call("gen_synthetic_fourier", RngId, None, None,
                             Some(signal), Some(f)))
          /\ IF Len(f) = Len(signal)
             THEN /\ pc' = "repair"
                  /\ UNCHANGED << exit_status, message >>
             ELSE \* AssertionError
                  Exit(1, "")
    /\ attempts' = 0
    /\ UNCHANGED << arg_outfile, output_file_path, hl7_isdir, infile_list,
                    header_list, synthetic_data, date_tuple_list >>
    /\ UNCHANGED << driver, arg_num_samples, arg_rng_seed, num_samples,
                    rng_seed, rng, rng_created, signal, synthetic_timeseries,
                    sample_count_synthetic >>
    /\ UNCHANGED tester_vars

\* variant: the repairer may append a day
modify_sparse_segments_mut(ts, delta) ==
    Series(Len(ts)) \cup Series(Len(ts) + 1)

\* timeseries.modify_sparse_segments(rng, synthetic_fourier, delta):
\* a series as long as its input
modify_sparse_segments(ts, delta) == Series(Len(ts))

\* variant: a retry works on the result of the attempt before it
RepairAttempt_mut ==
    /\ pc = "repair"
    /\ while_cond(attempts)
    /\ \E r \in modify_sparse_segments(
                   IF attempts = 0 THEN synthetic_fourier
                                   ELSE synthetic_timeseries,
                   delta_of(attempts)) :
          /\ synthetic_timeseries' = r
          /\ calls' = Append(calls,
                        Call("modify_sparse_segments", RngId, None,
                             Some(delta_of(attempts)),
                             Some(IF attempts = 0 THEN synthetic_fourier
                                                  ELSE synthetic_timeseries),
                             Some(r)))
          /\ IF ~broadcastable(r, signal)
             THEN \* the subtraction raises ValueError
                  /\ attempts' = attempts
                  /\ Exit(1, "ValueError: operands could not be broadcast")
             ELSE /\ UNCHANGED << exit_status, message >>
                  /\ IF ~np_any(diff_signal(r, signal))
                     THEN /\ attempts' = attempts + 1
                          /\ pc' = "repair"
                     ELSE /\ attempts' = attempts
                          /\ pc' = "count"
    /\ UNCHANGED << arg_outfile, output_file_path, hl7_isdir, infile_list,
                    header_list, synthetic_data, date_tuple_list >>
    /\ UNCHANGED << driver, arg_num_samples, arg_rng_seed, num_samples,
                    rng_seed, rng, rng_created, signal, synthetic_fourier,
                    sample_count_synthetic >>
    /\ UNCHANGED tester_vars

\* one pass through the body of the escalation loop
RepairAttempt ==
    /\ pc = "repair"
    /\ while_cond(attempts)
    /\ \E r \in modify_sparse_segments(synthetic_fourier, delta_of(attempts)) :
          /\ synthetic_timeseries' = r
          /\ calls' = Append(calls,
                        Call("modify_sparse_segments", RngId, None,
                             Some(delta_of(attempts)), Some(synthetic_fourier),
                             Some(r)))
          /\ IF ~broadcastable(r, signal)
             THEN \* the subtraction raises ValueError
                  /\ attempts' = attempts
                  /\ Exit(1, "ValueError: operands could not be broadcast")
             ELSE /\ UNCHANGED << exit_status, message >>
                  /\ IF ~np_any(diff_signal(r, signal))
                     THEN /\ attempts' = attempts + 1
                          /\ pc' = "repair"
                     ELSE /\ attempts' = attempts
                          /\ pc' = "count"
    /\ UNCHANGED << arg_outfile, output_file_path, hl7_isdir, infile_list,
                    header_list, synthetic_data, date_tuple_list >>
    /\ UNCHANGED << driver, arg_num_samples, arg_rng_seed, num_samples,
                    rng_seed, rng, rng_created, signal, synthetic_fourier,
                    sample_count_synthetic >>
    /\ UNCHANGED tester_vars

\* variant: exhausting the attempts is treated as fatal
LoopExit_mut ==
    /\ pc = "repair"
    /\ ~while_cond(attempts)
    /\ Exit(FailStatus, "modify_sparse_segments")
    /\ UNCHANGED << arg_outfile, output_file_path, hl7_isdir, infile_list,
                    header_list, synthetic_data, date_tuple_list >>
    /\ UNCHANGED << driver, arg_num_samples, arg_rng_seed, num_samples,
                    rng_seed, rng, rng_created, signal, synthetic_fourier,
                    synthetic_timeseries, attempts, sample_count_synthetic,
                    calls >>
    /\ UNCHANGED tester_vars

\* the loop condition fails: every attempt returned the original signal
LoopExit ==
    /\ pc = "repair"
    /\ ~while_cond(attempts)
    /\ pc' = "count"
    /\ UNCHANGED << arg_outfile, output_file_path, hl7_isdir, infile_list,
                    header_list, synthetic_data, date_tuple_list >>
    /\ UNCHANGED << driver, arg_num_samples, arg_rng_seed, num_samples,
                    rng_seed, rng, rng_created, signal, synthetic_fourier,
                    synthetic_timeseries, attempts, sample_count_synthetic,
                    calls, exit_status, message >>
    /\ UNCHANGED tester_vars

\* variant: the counts of the original signal are summed
ComputeSampleCount_mut ==
    /\ pc = "count"
    /\ sample_count_synthetic' =
          IF ~IsNone(num_samples) THEN Val(num_samples)
                                  ELSE np_sum(signal)
    /\ pc' = "copula"
    /\ UNCHANGED << arg_outfile, output_file_path, hl7_isdir, infile_list,
                    header_list, synthetic_data, date_tuple_list >>
    /\ UNCHANGED << driver, arg_num_samples, arg_rng_seed, num_samples,
                    rng_seed, rng, rng_created, signal, synthetic_fourier,
                    synthetic_timeseries, attempts, calls, exit_status,
                    message >>
    /\ UNCHANGED tester_vars

\* sample_count_synthetic = int(np.sum(synthetic_timeseries)), overridden by
\* num_samples when that is not None
ComputeSampleCount ==
    /\ pc = "count"
    /\ sample_count_synthetic' =
          IF ~IsNone(num_samples) THEN Val(num_samples)
                                  ELSE np_sum(synthetic_timeseries)
    /\ pc' = "copula"
    /\ UNCHANGED << arg_outfile, output_file_path, hl7_isdir, infile_list,
                    header_list, synthetic_data, date_tuple_list >>
    /\ UNCHANGED << driver, arg_num_samples, arg_rng_seed, num_samples,
                    rng_seed, rng, rng_created, signal, synthetic_fourier,
                    synthetic_timeseries, attempts, calls, exit_status,
                    message >>
    /\ UNCHANGED tester_vars

\* variant: the sampler's result is corrected without looking at it
RunCopulaModel_mut ==
    /\ pc = "copula"
    /\ calls' = Append(calls,
                  Call("copula_n_variable_model", RngId,
                       Some(sample_count_synthetic), None, None, None))
    /\ \E sampled \in BOOLEAN :
          synthetic_data' = IF sampled THEN "sampled" ELSE "None"
    /\ pc' = "correct"
    /\ UNCHANGED << arg_outfile, output_file_path, hl7_isdir, infile_list,
                    header_list, date_tuple_list >>
    /\ UNCHANGED << driver, arg_num_samples, arg_rng_seed, num_samples,
                    rng_seed, rng, rng_created, signal, synthetic_fourier,
                    synthetic_timeseries, attempts, sample_count_synthetic,
                    exit_status, message >>
    /\ UNCHANGED tester_vars

\* variant: the tuples go from the sampler straight to the date deriver
RunCopulaModel_skip ==
    /\ pc = "copula"
    /\ calls' = Append(calls,
                  Call("copula_n_variable_model", RngId,
                       Some(sample_count_synthetic), None, None, None))
    /\ \E sampled \in BOOLEAN :
          /\ synthetic_data' = IF sampled THEN "sampled" ELSE "None"
          /\ IF sampled
             THEN /\ pc' = "dates"
                  /\ UNCHANGED << exit_status, message >>
             ELSE IF driver = "cli"
                  THEN Exit(-1, "copula_n_variable_model")
                  ELSE error_exit("copula_n_variable_model")
    /\ UNCHANGED << arg_outfile, output_file_path, hl7_isdir, infile_list,
                    header_list, date_tuple_list >>
    /\ UNCHANGED << driver, arg_num_samples, arg_rng_seed, num_samples,
                    rng_seed, rng, rng_created, signal, synthetic_fourier,
                    synthetic_timeseries, attempts, sample_count_synthetic >>
    /\ UNCHANGED tester_vars

\* model.copula_n_variable_model(sample_count_synthetic, ..., rng); the
\* result is None when the sampler fails: the CLI prints and calls
\* sys.exit(-1), the notebook calls model.error_exit
RunCopulaModel ==
    /\ pc = "copula"
    /\ calls' = Append(calls,
                  Call("copula_n_variable_model", RngId,
                       Some(sample_count_synthetic), None, None, None))
    /\ \E sampled \in BOOLEAN :
          /\ synthetic_data' = IF sampled THEN "sampled" ELSE "None"
          /\ IF sampled
             THEN /\ pc' = "correct"
                  /\ UNCHANGED << exit_status, message >>
             ELSE IF driver = "cli"
                  THEN Exit(-1, "copula_n_variable_model")
                  ELSE error_exit("copula_n_variable_model")
    /\ UNCHANGED << arg_outfile, output_file_path, hl7_isdir, infile_list,
                    header_list, date_tuple_list >>
    /\ UNCHANGED << driver, arg_num_samples, arg_rng_seed, num_samples,
                    rng_seed, rng, rng_created, signal, synthetic_fourier,
                    synthetic_timeseries, attempts, sample_count_synthetic >>
    /\ UNCHANGED tester_vars

\* variant: the corrector's result is dropped
CorrectPseudopersons_mut ==
    /\ pc = "correct"
    /\ calls' = Append(calls,
                  WithData(Call("correct_invalid_pseudopersons", RngId,
                                Some(sample_count_synthetic), None, None,
                                None),
                           synthetic_data))
    /\ pc' = "dates"
    /\ UNCHANGED << arg_outfile, output_file_path, hl7_isdir, infile_list,
                    header_list, synthetic_data, date_tuple_list >>
    /\ UNCHANGED << driver, arg_num_samples, arg_rng_seed, num_samples,
                    rng_seed, rng, rng_created, signal, synthetic_fourier,
                    synthetic_timeseries, attempts, sample_count_synthetic,
                    exit_status, message >>
    /\ UNCHANGED tester_vars

\* synthetic_data = pseudo.correct_invalid_pseudopersons(
\*     sample_count_synthetic, ..., synthetic_data, ..., rng), then
\* synthetic_results = data.remap_synthetic_results(synthetic_data, ...)
CorrectPseudopersons ==
    /\ pc = "correct"
    /\ calls' = Append(calls,
                  WithData(Call("correct_invalid_pseudopersons", RngId,
                                Some(sample_count_synthetic), None, None,
                                None),
                           synthetic_data))
    /\ synthetic_data' = "corrected"
    /\ pc' = "dates"
    /\ UNCHANGED << arg_outfile, output_file_path, hl7_isdir, infile_list,
                    header_list, date_tuple_list >>
    /\ UNCHANGED << driver, arg_num_samples, arg_rng_seed, num_samples,
                    rng_seed, rng, rng_created, signal, synthetic_fourier,
                    synthetic_timeseries, attempts, sample_count_synthetic,
                    exit_status, message >>
    /\ UNCHANGED tester_vars

\* data.generate_date_tuples(n, ...): one date tuple per categorical tuple,
\* or fewer when the representable-date ceiling is reached first, which it
\* reports as a diagnostic
generate_date_tuples(n) ==
    {[count |-> m, diagnostic |-> (m < n)] : m \in 0..(IF n > 0 THEN n ELSE 0)}

\* variant: the date deriver is given a generator of its own
GenerateDateTuples_mut ==
    /\ pc = "dates"
    /\ rng' = Some(init_rng(rng_seed, rng_created + 1))
    /\ rng_created' = rng_created + 1
    /\ calls' = Append(calls,
                  WithData(Call("generate_date_tuples", rng_created + 1,
                                Some(sample_count_synthetic), None,
                                Some(synthetic_timeseries), None),
                           remap_synthetic_results(synthetic_data)))
    /\ \E d \in generate_date_tuples(sample_count_synthetic) :
          date_tuple_list' = Some(d)
    /\ pc' = "write"
    /\ UNCHANGED << arg_outfile, output_file_path, hl7_isdir, infile_list,
                    header_list, synthetic_data >>
    /\ UNCHANGED << driver, arg_num_samples, arg_rng_seed, num_samples,
                    rng_seed, signal, synthetic_fourier,
                    synthetic_timeseries, attempts, sample_count_synthetic,
                    exit_status, message >>
    /\ UNCHANGED tester_vars

\* variant: a short date tuple list is treated as fatal
GenerateDateTuples_abort ==
    /\ pc = "dates"
    /\ calls' = Append(calls,
                  WithData(Call("generate_date_tuples", RngId,
                                Some(sample_count_synthetic), None,
                                Some(synthetic_timeseries), None),
                           remap_synthetic_results(synthetic_data)))
    /\ \E d \in generate_date_tuples(sample_count_synthetic) :
          /\ date_tuple_list' = Some(d)
          /\ IF d.count < sample_count_synthetic
             THEN Exit(-1, "generate_date_tuples")
             ELSE /\ pc' = "write"
                  /\ UNCHANGED << exit_status, message >>
    /\ UNCHANGED << arg_outfile, output_file_path, hl7_isdir, infile_list,
                    header_list, synthetic_data >>
    /\ UNCHANGED << driver, arg_num_samples, arg_rng_seed, num_samples,
                    rng_seed, rng, rng_created, signal, synthetic_fourier,
                    synthetic_timeseries, attempts, sample_count_synthetic >>
    /\ UNCHANGED tester_vars

\* date_tuple_list = data.generate_date_tuples(sample_count_synthetic,
\*     synthetic_timeseries, dates, variable_names, synthetic_results,
\*     str_max_date_orig, rng); synthetic_results is the remapped
\* synthetic_data
GenerateDateTuples ==
    /\ pc = "dates"
    /\ calls' = Append(calls,
                  WithData(Call("generate_date_tuples", RngId,
                                Some(sample_count_synthetic), None,
                                Some(synthetic_timeseries), None),
                           remap_synthetic_results(synthetic_data)))
    /\ \E d \in generate_date_tuples(sample_count_synthetic) :
          date_tuple_list' = Some(d)
    /\ pc' = "write"
    /\ UNCHANGED << arg_outfile, output_file_path, hl7_isdir, infile_list,
                    header_list, synthetic_data >>
    /\ UNCHANGED << driver, arg_num_samples, arg_rng_seed, num_samples,
                    rng_seed, rng, rng_created, signal, synthetic_fourier,
                    synthetic_timeseries, attempts, sample_count_synthetic,
                    exit_status, message >>
    /\ UNCHANGED tester_vars

\* variant: the writer is given the number of date tuples as its count
WriteOutputFile_mut ==
    /\ pc = "write"
    /\ calls' = Append(calls,
                  WithDates(WithData(Call("write_output_file", 0,
                                          Some(Val(date_tuple_list).count),
                                          None,
                                          Some(synthetic_timeseries), None),
                                     remap_synthetic_results(synthetic_data)),
                            date_tuple_list))
    /\ pc' = "done"
    /\ exit_status' = Some(0)
    /\ UNCHANGED << arg_outfile, output_file_path, hl7_isdir, infile_list,
                    header_list, synthetic_data, date_tuple_list >>
    /\ UNCHANGED << driver, arg_num_samples, arg_rng_seed, num_samples,
                    rng_seed, rng, rng_created, signal, synthetic_fourier,
                    synthetic_timeseries, attempts, sample_count_synthetic,
                    message >>
    /\ UNCHANGED tester_vars

\* data.write_output_file(output_file_path, sample_count_synthetic,
\*     synthetic_timeseries, dates, variable_names, synthetic_results,
\*     str_max_date_orig, date_tuple_list); the run ends normally
WriteOutputFile ==
    /\ pc = "write"
    /\ calls' = Append(calls,
                  WithDates(WithData(Call("write_output_file", 0,
                                          Some(sample_count_synthetic), None,
                                          Some(synthetic_timeseries), None),
                                     remap_synthetic_results(synthetic_data)),
                            date_tuple_list))
    /\ pc' = "done"
    /\ exit_status' = Some(0)
    /\ UNCHANGED << arg_outfile, output_file_path, hl7_isdir, infile_list,
                    header_list, synthetic_data, date_tuple_list >>
    /\ UNCHANGED << driver, arg_num_samples, arg_rng_seed, num_samples,
                    rng_seed, rng, rng_created, signal, synthetic_fourier,
                    synthetic_timeseries, attempts, sample_count_synthetic,
                    message >>
    /\ UNCHANGED tester_vars

\* the exit statuses a generator run ends with
GeneratorExitCodes == {0, 1, -1}

\* the directory listings offered to the tester: TRUE marks a regular file
ItemLists == UNION {[1..n -> BOOLEAN] : n \in 0..MaxItems}

\* the tester started for one jurisdiction (not 'all'); no generator run of
\* its own is in progress
InitTester ==
    /\ t_pc = "check_dir"
    /\ t_items \in ItemLists
    /\ t_idx = 0
    /\ t_launched = << >>
    /\ t_running = {}
    /\ t_codes = << >>
    /\ t_exit = None
    /\ pc = "idle"
    /\ driver = "cli"
    /\ arg_num_samples = None
    /\ arg_rng_seed = None
    /\ num_samples = None
    /\ rng_seed = None
    /\ rng = None
    /\ rng_created = 0
    /\ signal = << >>
    /\ synthetic_fourier = << >>
    /\ synthetic_timeseries = << >>
    /\ attempts = 0
    /\ sample_count_synthetic = 0
    /\ calls = << >>
    /\ exit_status = None
    /\ message = ""
    /\ arg_outfile = None
    /\ output_file_path = None
    /\ hl7_isdir = None
    /\ infile_list = None
    /\ header_list = None
    /\ synthetic_data = "unset"
    /\ date_tuple_list = None

\* if not os.path.isdir(data_dir): print, sys.exit(-1); else start the loop
\* over os.listdir(data_dir)
TesterCheckDir ==
    /\ t_pc = "check_dir"
    /\ \E isdir \in BOOLEAN :
          IF isdir
          THEN /\ t_pc' = "loop"
               /\ t_idx' = 1
               /\ UNCHANGED t_exit
          ELSE /\ t_pc' = "exit"
               /\ t_exit' = Some(-1)
               /\ UNCHANGED t_idx
    /\ UNCHANGED << t_items, t_launched, t_running, t_codes >>
    /\ UNCHANGED generator_vars

\* an item that is not a regular file: the loop goes on to the next item
TesterSkip ==
    /\ t_pc = "loop"
    /\ t_idx <= Len(t_items)
    /\ ~t_items[t_idx]
    /\ t_idx' = t_idx + 1
    /\ UNCHANGED << t_pc, t_items, t_launched, t_running, t_codes, t_exit >>
    /\ UNCHANGED generator_vars

\* a regular file: the command is built and subprocess.run starts the
\* generator; the tester waits in subprocess.run
TesterLaunch ==
    /\ t_pc = "loop"
    /\ t_idx <= Len(t_items)
    /\ t_items[t_idx]
    /\ t_launched' = Append(t_launched, t_idx)
    /\ t_running' = t_running \cup {t_idx}
    /\ t_pc' = "wait"
    /\ UNCHANGED << t_items, t_idx, t_codes, t_exit >>
    /\ UNCHANGED generator_vars

\* variant: a run that fails ends the tester
TesterRunEnds_mut ==
    /\ t_pc = "wait"
    /\ \E code \in GeneratorExitCodes :
          /\ t_codes' = Append(t_codes, code)
          /\ IF code = 0
             THEN /\ t_pc' = "loop"
                  /\ UNCHANGED t_exit
             ELSE /\ t_pc' = "exit"
                  /\ t_exit' = Some(1)
    /\ t_running' = t_running \ {t_idx}
    /\ t_idx' = t_idx + 1
    /\ UNCHANGED << t_items, t_launched >>
    /\ UNCHANGED generator_vars

\* subprocess.run returns when the generator has ended, with any status; the
\* status is not looked at, the output is printed and the loop goes on
TesterRunEnds ==
    /\ t_pc = "wait"
    /\ \E code \in GeneratorExitCodes : t_codes' = Append(t_codes, code)
    /\ t_running' = t_running \ {t_idx}
    /\ t_idx' = t_idx + 1
    /\ t_pc' = "loop"
    /\ UNCHANGED << t_items, t_launched, t_exit >>
    /\ UNCHANGED generator_vars

\* the listing is exhausted: the tester ends
TesterDone ==
    /\ t_pc = "loop"
    /\ t_idx > Len(t_items)
    /\ t_pc' = "done"
    /\ t_exit' = Some(0)
    /\ UNCHANGED << t_items, t_idx, t_launched, t_running, t_codes >>
    /\ UNCHANGED generator_vars

TesterNext ==
    \/ TesterCheckDir
    \/ TesterSkip
    \/ TesterLaunch
    \/ TesterRunEnds
    \/ TesterDone

\* the tester script run for one jurisdiction
TesterSpec == InitTester /\ [][TesterNext]_vars

Next ==
    \/ ParseArgs
    \/ CheckHl7Dir
    \/ BuildInputFilepaths
    \/ BuildOutputFilepath
    \/ InitRng
    \/ CheckSampleCount
    \/ LoadInputFiles
    \/ CheckOutputFields
    \/ SignalFromAnchorDate
    \/ GenSyntheticFourier
    \/ RepairAttempt
    \/ LoopExit
    \/ ComputeSampleCount
    \/ RunCopulaModel
    \/ CorrectPseudopersons
    \/ GenerateDateTuples
    \/ WriteOutputFile

Spec == Init /\ [][Next]_vars

\* the interpreter always takes the next step of a run that has not ended
FairSpec == Spec /\ WF_vars(Next)

\* the same program started with an output file argument
OutfileSpec == InitOutfile /\ [][Next]_vars

TypeOK ==
    /\ pc \in {"parse_args", "check_hl7_dir", "build_input", "build_output",
               "init_rng", "check_samples", "load", "check_fields", "signal",
               "fourier", "repair", "count", "copula", "correct", "dates",
               "write", "done", "exit", "idle"}
    /\ t_pc \in {"idle", "check_dir", "loop", "wait", "done", "exit"}
    /\ driver \in Drivers
    /\ attempts \in 0..MaxAttempts
    /\ rng_created \in 0..1

\* ============================================================== claims
IsRepairCall(c) == c.stage = "modify_sparse_segments"

\* the repair attempts made so far, in order
RepairCalls == SelectSeq(calls, IsRepairCall)

\* two series of one length differ on at least one day
Differs(a, b) == \E i \in 1..Len(a) : a[i] # b[i]

\* the escalation loop has been left
PastLoop ==
    \/ pc \in {"count", "copula", "correct", "dates", "write", "done"}
    \/ pc = "exit" /\ Called("copula_n_variable_model")

\* C1: in every run that reaches signal processing the escalation loop
\* terminates, and the repairer is invoked at least once and at most 7
\* times, whatever it returns.
C1_EscalationLoopTerminates ==
    /\ [](Len(RepairCalls) <= 7)
    /\ [](PastLoop => Len(RepairCalls) >= 1)
    /\ (pc \in {"signal", "fourier", "repair"} ~> PastLoop)

C1_Witness == pc = "done" /\ Len(RepairCalls) = 7

C3_StopAtFirstDifference ==
    /\ \A k \in 1..Len(RepairCalls) :
          k < Len(RepairCalls) => ~Differs(Val(RepairCalls[k].result), signal)
    /\ (Len(RepairCalls) > 0 /\ pc # "exit"
        /\ Differs(Val(RepairCalls[Len(RepairCalls)].result), signal))
       => /\ pc # "repair"
          /\ synthetic_timeseries = Val(RepairCalls[Len(RepairCalls)].result)
    /\ \A i \in CallsOf("write_output_file") \cup CallsOf("generate_date_tuples") :
          calls[i].ts = RepairCalls[Len(RepairCalls)].result

C3_Witness ==
    /\ pc = "done"
    /\ Len(RepairCalls) = 3
    /\ Differs(synthetic_timeseries, signal)
    /\ np_sum(synthetic_timeseries) = np_sum(signal)

\* C4: when all 7 attempts return the original signal the run does not
\* abort: the unmodified series is the final synthetic timeseries and the
\* run goes on to the copula sampler, the validity corrector, the date
\* deriver and the writer (it can end early only where the sampler fails).
C4_ExhaustionIsNotFatal ==
    (Len(RepairCalls) = 7
     /\ ~Differs(Val(RepairCalls[7].result), signal))
    => /\ synthetic_timeseries = signal
       /\ pc \in {"repair", "count", "copula", "correct", "dates", "write",
                  "done", "exit"}
       /\ pc = "exit" => /\ Called("copula_n_variable_model")
                         /\ message = "copula_n_variable_model"
       /\ pc = "done" => /\ Called("copula_n_variable_model")
                         /\ Called("correct_invalid_pseudopersons")
                         /\ Called("generate_date_tuples")
                         /\ \E i \in CallsOf("write_output_file") :
                               calls[i].ts = Some(signal)

C4_Witness ==
    /\ pc = "done"
    /\ Len(RepairCalls) = 7
    /\ synthetic_timeseries = signal
    /\ Called("write_output_file")

\* C5: the synthetic signal has the length of the original signal: the
\* output of the spectral synthesizer, the result of every repair attempt
\* and the series accepted as final.
C5_LengthPreserved ==
    /\ \A i \in CallsOf("gen_synthetic_fourier") :
          Len(Val(calls[i].result)) = Len(signal)
    /\ \A k \in 1..Len(RepairCalls) :
          Len(Val(RepairCalls[k].result)) = Len(signal)
    /\ PastLoop => Len(synthetic_timeseries) = Len(signal)

C5_Witness ==
    /\ pc = "done"
    /\ Len(signal) = MaxLen
    /\ Len(RepairCalls) >= 2
    /\ Len(synthetic_timeseries) = MaxLen

\* C6: with a positive sample-count override k the copula sampler is asked
\* for exactly k tuples, whatever the synthetic timeseries sums to.
C6_OverrideIsUsed ==
    \A i \in CallsOf("copula_n_variable_model") :
        (~IsNone(arg_num_samples) /\ Val(arg_num_samples) > 0)
        => calls[i].n = arg_num_samples

\* C7: without an override the tuple count requested from the copula
\* sampler is the sum of the final synthetic timeseries, the one the
\* escalation loop accepted.
C7_CountIsSumOfFinalSeries ==
    \A i \in CallsOf("copula_n_variable_model") :
        IsNone(arg_num_samples)
        => calls[i].n = Some(np_sum(Val(RepairCalls[Len(RepairCalls)].result)))

C7_Witness ==
    /\ Called("copula_n_variable_model")
    /\ IsNone(arg_num_samples)
    /\ np_sum(synthetic_timeseries) # np_sum(signal)
    /\ np_sum(synthetic_timeseries) # np_sum(synthetic_fourier)
    /\ sample_count_synthetic = np_sum(synthetic_timeseries)

\* C8: a zero or negative sample-count override makes the CLI run abort
\* with a non-zero status before any input file is loaded, before any
\* synthesis stage and without an output file.
C8_NonPositiveOverrideAborts ==
    (driver = "cli" /\ ~IsNone(arg_num_samples) /\ Val(arg_num_samples) <= 0)
    => /\ ~Called("init_model_data")
       /\ ~Called("gen_synthetic_fourier")
       /\ ~Called("write_output_file")
       /\ pc \notin {"load", "check_fields", "signal", "fourier", "repair",
                     "count", "copula", "correct", "dates", "write", "done"}
       /\ (pc = "exit" /\ rng_created = 1) => Val(exit_status) # 0

\* C9: for every integer s given as --rng_seed the CLI seeds the generator
\* with s; the system time is the seed only when --rng_seed is omitted.
C9_SeedIsUsed ==
    (driver = "cli" /\ ~IsNone(rng))
    => Val(rng).seed = arg_rng_seed

\* the stages that draw from the generator
RngStages ==
    {"init_model_data", "gen_synthetic_fourier", "modify_sparse_segments",
     "copula_n_variable_model", "correct_invalid_pseudopersons",
     "generate_date_tuples"}

\* C10: the generator is created once per run, and that one object is what
\* the loader, the synthesizer, every repair attempt, the sampler, the
\* corrector and the date deriver are given; no second generator, no reseed.
C10_OneGenerator ==
    /\ rng_created <= 1
    /\ pc \in {"check_samples", "load", "check_fields", "signal", "fourier",
               "repair", "count", "copula", "correct", "dates", "write",
               "done"} => rng_created = 1
    /\ ~IsNone(rng) => Val(rng) = init_rng(rng_seed, 1)
    /\ \A i \in 1..Len(calls) :
          calls[i].stage \in RngStages
          => calls[i].rng = 1 /\ rng_created = 1

C10_Witness ==
    /\ pc = "done"
    /\ Len(RepairCalls) >= 2
    /\ \A st \in RngStages : \E i \in CallsOf(st) : calls[i].rng = 1

\* the stages of the pipeline in their order; 0 for any other call
StageRank(stage) ==
    CASE stage = "gen_synthetic_fourier" -> 1
      [] stage = "modify_sparse_segments" -> 2
      [] stage = "copula_n_variable_model" -> 3
      [] stage = "correct_invalid_pseudopersons" -> 4
      [] stage = "generate_date_tuples" -> 5
      [] stage = "write_output_file" -> 6
      [] OTHER -> 0

IsPipelineCall(c) == StageRank(c.stage) > 0

\* the calls of the six pipeline stages, in the order they were made
PipelineCalls == SelectSeq(calls, IsPipelineCall)

\* C11: the pipeline stages are called in the order synthesizer, repair
\* attempts, copula sampler, validity corrector, date deriver, writer: the
\* first pipeline call is the synthesizer, each later call is of the same
\* stage (repair attempts only) or of the next stage, none is skipped
C11_StageOrder ==
    /\ Len(PipelineCalls) > 0 => StageRank(PipelineCalls[1].stage) = 1
    /\ \A i \in 1..(Len(PipelineCalls) - 1) :
          LET a == StageRank(PipelineCalls[i].stage)
              b == StageRank(PipelineCalls[i + 1].stage)
          IN \/ b = a + 1
             \/ a = 2 /\ b = 2

C11_Witness ==
    /\ pc = "done"
    /\ Len(PipelineCalls) = 7
    /\ StageRank(PipelineCalls[7].stage) = 6

\* C12: once the copula sampler has returned None the run is over with a
\* non-zero status, and corrector, date deriver and writer were not called
C12_CopulaFailureAborts ==
    synthetic_data = "None"
    => /\ pc = "exit"
       /\ Val(exit_status) # 0
       /\ ~Called("correct_invalid_pseudopersons")
       /\ ~Called("generate_date_tuples")
       /\ ~Called("write_output_file")

C12_Witness ==
    /\ synthetic_data = "None"
    /\ driver = "cli"
    /\ exit_status = Some(-1)

\* C13: in the CLI an empty input file list ends the run with status 0, with
\* no generator created, nothing loaded and nothing written
C13_NoInputIsCleanExit ==
    (driver = "cli" /\ infile_list = Some(0))
    => /\ pc = "exit"
       /\ exit_status = Some(0)
       /\ rng_created = 0
       /\ ~Called("init_model_data")
       /\ ~Called("write_output_file")

C13_Witness ==
    /\ driver = "cli"
    /\ infile_list = Some(0)
    /\ pc = "exit"
    /\ message = "No data in jurisdiction for codes"

\* the stages from signal processing on
SynthesisStarted ==
    \/ Called("signal_from_anchor_date")
    \/ Len(PipelineCalls) > 0

C15_BadDataRootAborts ==
    (driver = "cli" /\ hl7_isdir = Some(FALSE))
    => /\ pc = "exit"
       /\ Val(exit_status) # 0
       /\ ~Called("build_input_filepaths")
       /\ IsNone(infile_list)
       /\ rng_created = 0
       /\ ~Called("write_output_file")

C15_Witness ==
    /\ driver = "cli"
    /\ hl7_isdir = Some(FALSE)
    /\ pc = "exit"
    /\ message = "The specified HL7 data directory does not exist"

\* the run was ended because of the extension of the output file
RejectedForExtension ==
    /\ pc = "exit"
    /\ message \in {"Supported output file extensions are .csv and .json",
                    "Unsupported format for output file"}

\* C16: in the CLI a given output path is accepted when its extension, in
\* lower case, is .csv or .json, and otherwise the run ends with a non-zero
\* status before any input is loaded
C16_ExtensionCaseInsensitive ==
    (driver = "cli" /\ TruthyStr(arg_outfile))
    => IF lower(splitext(arg_outfile)[2]) \in {_EXT_CSV, _EXT_JSON}
       THEN ~RejectedForExtension
       ELSE /\ pc \in {"parse_args", "check_hl7_dir", "build_input",
                       "build_output", "exit"}
            /\ ~Called("init_model_data")
            /\ RejectedForExtension => Val(exit_status) # 0

\* C17: an output file name without extension is not rejected, and the
\* output path is built from the name with .csv appended
C17_MissingExtensionDefaultsToCsv ==
    (~IsNone(Outfile) /\ splitext(Outfile)[2] = Str(<< >>))
    => /\ ~RejectedForExtension
       /\ ~IsNone(output_file_path)
          => Val(output_file_path).name = concat(Outfile, _EXT_CSV)

\* the date deriver returned fewer date tuples than requested
Truncated ==
    /\ ~IsNone(date_tuple_list)
    /\ Val(date_tuple_list).count < sample_count_synthetic

\* C18: a truncated date tuple list does not end the run: the writer is the
\* next stage, it gets the truncated list, the run ends with status 0, and
\* the truncation is flagged
C18_TruncationIsNotFatal ==
    Truncated
    => /\ pc \in {"write", "done"}
       /\ Val(date_tuple_list).diagnostic
       /\ pc = "done"
          => /\ exit_status = Some(0)
             /\ \E i \in CallsOf("write_output_file") :
                   calls[i].dates = date_tuple_list

C18_Witness ==
    /\ Truncated
    /\ pc = "done"
    /\ Val(date_tuple_list).count = 0

\* C19: the tuples passed to the date deriver and to the writer are the
\* remapped output of the validity corrector, never the raw sample
C19_OnlyCorrectedTuples ==
    \A i \in CallsOf("generate_date_tuples") \cup CallsOf("write_output_file") :
        calls[i].data = remap_synthetic_results("corrected")

C19_Witness ==
    /\ Called("write_output_file")
    /\ \E i \in CallsOf("correct_invalid_pseudopersons") :
          calls[i].data = "sampled"

C22_CopulaCountAtLeastOne ==
    np_sum(signal) >= 1
    => \A i \in CallsOf("copula_n_variable_model") : Val(calls[i].n) >= 1

\* the stages that take the tuple count
CountStages ==
    {"copula_n_variable_model", "correct_invalid_pseudopersons",
     "generate_date_tuples", "write_output_file"}

\* C23: sampler, corrector, date deriver and writer are all given the same
\* tuple count, the one computed before the sampler ran, also when the date
\* deriver returned fewer date tuples
C23_SameCountEverywhere ==
    \A i \in 1..Len(calls) :
        calls[i].stage \in CountStages
        => /\ calls[i].n = Some(sample_count_synthetic)
           /\ \A k \in 1..Len(calls) :
                 calls[k].stage \in CountStages => calls[k].n = calls[i].n

C23_Witness ==
    /\ pc = "done"
    /\ Truncated
    /\ \A st \in CountStages : Called(st)
    /\ sample_count_synthetic = 1

\* C24: every repair attempt is given the output of the spectral synthesizer,
\* which is not reassigned after the synthesizer returned it
C24_RepairInputIsFourierOutput ==
    /\ \A i \in CallsOf("modify_sparse_segments") :
          calls[i].ts = Some(synthetic_fourier)
    /\ \A i \in CallsOf("gen_synthetic_fourier") :
          calls[i].result = Some(synthetic_fourier)

C24_Witness ==
    /\ Len(RepairCalls) >= 2
    /\ Differs(synthetic_fourier, signal)
    /\ RepairCalls[2].ts = Some(synthetic_fourier)

\* the tuple count the notebook driver requests for the settings of the run
notebook_count ==
    IF ~IsNone(arg_num_samples) THEN arg_num_samples
                                ELSE Some(np_sum(synthetic_timeseries))

\* C25: the two drivers make the same calls for the same settings: whichever
\* driver runs, the generator is created from the seed that was set, the
\* copula sampler is asked for the count the settings give, and a
\* non-positive sample count ends the run before anything is loaded
C25_DriversAgree ==
    /\ ~IsNone(rng) => Val(rng).seed = arg_rng_seed
    /\ \A i \in CallsOf("copula_n_variable_model") :
          calls[i].n = notebook_count
    /\ (~IsNone(arg_num_samples) /\ Val(arg_num_samples) <= 0)
       => ~Called("init_model_data")

\* the regular files among the first k items of the listing
RegularFiles(k) == {i \in 1..k : i <= Len(t_items) /\ t_items[i]}

\* C26: the tester launches the generator once for every regular file of the
\* directory, in the order of the listing and for nothing else; never is
\* more than one run in progress; and whatever the runs return, the tester
\* ends only when every regular file has had its run
C26_OneRunPerFile ==
    /\ Cardinality(t_running) <= 1
    /\ \A a, b \in 1..Len(t_launched) : a < b => t_launched[a] < t_launched[b]
    /\ {t_launched[a] : a \in 1..Len(t_launched)} =
          RegularFiles(IF t_pc = "wait" THEN t_idx ELSE t_idx - 1)
    /\ t_pc = "wait" => t_running = {t_idx}
    /\ t_pc = "done"
       => /\ {t_launched[a] : a \in 1..Len(t_launched)}
                = RegularFiles(Len(t_items))
          /\ Len(t_codes) = Len(t_launched)
          /\ t_running = {}
    /\ t_pc = "exit" => (t_exit = Some(-1) /\ t_launched = << >>)

C26_Witness ==
    /\ t_pc = "done"
    /\ Len(t_launched) = 2
    /\ t_codes[1] = -1
    /\ \E i \in 1..Len(t_items) : ~t_items[i]

====
